---- MODULE Spec2Model ----
(***************************************************************************)
(* wbc: users submit a ranked 5-driver guess for the next race; guesses are *)
(* kept in a csv_db Database behind one tokio Mutex, scored against the     *)
(* official results and summed into a leaderboard.                          *)
(*                                                                          *)
(* Strings are sequences of characters.  A character is a one-letter string *)
(* for an ASCII character and a named token for a non-ASCII one, so that    *)
(* the Unicode conversions (str::to_uppercase, str::to_lowercase) and the   *)
(* ASCII-only comparison (str::eq_ignore_ascii_case) are told apart.        *)
(***************************************************************************)
EXTENDS Integers, Sequences, FiniteSets, TLC

----------------------------------------------------------------------------
(* Characters and the string conversions of the Rust standard library.     *)

AsciiLower ==
    << "a", "b", "c", "d", "e", "f", "g", "h", "i", "j", "k", "l", "m",
       "n", "o", "p", "q", "r", "s", "t", "u", "v", "w", "x", "y", "z" >>

AsciiUpper ==
    << "A", "B", "C", "D", "E", "F", "G", "H", "I", "J", "K", "L", "M",
       "N", "O", "P", "Q", "R", "S", "T", "U", "V", "W", "X", "Y", "Z" >>

Range(s) == { s[i] : i \in DOMAIN s }

IndexOf(s, c) == CHOOSE i \in DOMAIN s : s[i] = c

\* U+00E9 (e with acute) and U+00C9, its upper case: one character each way.
\* U+00DF (sharp s) has no single upper-case character: it upper-cases to "SS".
Chars ==
    Range(AsciiLower) \cup Range(AsciiUpper)
        \cup { "e_acute", "E_ACUTE", "sharp_s", " " }

\* char::to_uppercase: the upper case of one character, as a string.
UpperMap ==
    [ c \in Chars |->
        IF c \in Range(AsciiLower) THEN << AsciiUpper[IndexOf(AsciiLower, c)] >>
        ELSE IF c = "e_acute" THEN << "E_ACUTE" >>
        ELSE IF c = "sharp_s" THEN << "S", "S" >>
        ELSE << c >> ]

\* char::to_lowercase.
LowerMap ==
    [ c \in Chars |->
        IF c \in Range(AsciiUpper) THEN << AsciiLower[IndexOf(AsciiUpper, c)] >>
        ELSE IF c = "E_ACUTE" THEN << "e_acute" >>
        ELSE << c >> ]

\* u8::to_ascii_lowercase on the bytes of a character: A-Z only.
AsciiFoldMap ==
    [ c \in Chars |->
        IF c \in Range(AsciiUpper) THEN AsciiLower[IndexOf(AsciiUpper, c)]
        ELSE c ]

RECURSIVE ToUppercase(_)
ToUppercase(s) ==
    IF s = << >> THEN << >> ELSE UpperMap[Head(s)] \o ToUppercase(Tail(s))

RECURSIVE ToLowercase(_)
ToLowercase(s) ==
    IF s = << >> THEN << >> ELSE LowerMap[Head(s)] \o ToLowercase(Tail(s))

\* A comparison of two strings as they are, letter case included.
SameString(a, b) == a = b

EqIgnoreAsciiCase(a, b) ==
    /\ Len(a) = Len(b)
    /\ \A i \in DOMAIN a : AsciiFoldMap[a[i]] = AsciiFoldMap[b[i]]

----------------------------------------------------------------------------
(* The data the program starts from.                                        *)

NOR == << "N", "O", "R" >>
VER == << "V", "E", "R" >>
PIA == << "P", "I", "A" >>
RUS == << "R", "U", "S" >>
LEC == << "L", "E", "C" >>
HAM == << "H", "A", "M" >>
ANT == << "A", "N", "T" >>

\* The "drivers" collection (Driver.number and Driver.name are never read).
Drivers ==
    << [code |-> NOR], [code |-> VER], [code |-> PIA], [code |-> RUS],
       [code |-> LEC], [code |-> HAM], [code |-> ANT] >>

TestGP == << "T", "e", "s", "t", " ", "G", "P" >>
Mexico == << "M", "e_acute", "x", "i", "c", "o" >>
Quali == << "Q", "u", "a", "l", "i" >>

\* The "events" collection, in storage order.  Every event of the model is in
\* the configured channel and category; description and datetime are the
\* fields the filter of next_event tells the events of the model apart by.
Events ==
    << [name |-> Mexico, description |-> << "R", "a", "c", "e" >>, datetime |-> 2],
       [name |-> Quali, description |-> << "q", "u", "a", "l", "i" >>, datetime |-> 1],
       [name |-> TestGP, description |-> << "r", "a", "c", "e" >>, datetime |-> 1] >>

NoEvent == [name |-> << >>, description |-> << >>, datetime |-> 0]

SharpS == << "sharp_s" >>
Ss == << "s", "s" >>

\* Users registered before the server starts: add_user stored each lower-cased.
InitialUsers ==
    << [token |-> 1, username |-> SharpS, country |-> << >>],
       [token |-> 2, username |-> Ss, country |-> << >>] >>

NoUser == [token |-> 0, username |-> << >>, country |-> << >>]

NoGuess ==
    [race |-> << >>, username |-> << >>,
     p1 |-> << >>, p2 |-> << >>, p3 |-> << >>, p4 |-> << >>, p5 |-> << >>]

----------------------------------------------------------------------------
(* Bounds of the model and the inputs of the requests.                      *)

\* Number of requests in one behaviour; each is served by a task of its own,
\* and any number of them run at a time.
NumTasks == 2

Tasks == 1 .. NumTasks

\* Session tokens a request may carry: those of the registered users and one
\* that belongs to nobody (0).
TokenInputs == 0 .. Len(InitialUsers)

\* Usernames typed into the registration form.
RegistrationNames == { << "S", "s" >>, << "E_ACUTE" >> }

\* Usernames posted in a guess.
GuessNames == { SharpS, << "S", "s" >> }

\* Race names posted in a guess (the handler overwrites the field).
GuessRaces == { Quali }

Positions(a, b, c, d, e) == [p1 |-> a, p2 |-> b, p3 |-> c, p4 |-> d, p5 |-> e]

\* The five driver codes posted in a guess.
GuessPositions ==
    { Positions(NOR, VER, PIA, RUS, LEC),
      Positions(ToLowercase(VER), ToLowercase(NOR), PIA, LEC, RUS),
      Positions(NOR, ToLowercase(NOR), PIA, RUS, LEC),
      Positions(NOR, VER, PIA, RUS, << "X", "X", "X" >>) }

MkGuess(race, username, pos) ==
    [race |-> race, username |-> username,
     p1 |-> pos.p1, p2 |-> pos.p2, p3 |-> pos.p3, p4 |-> pos.p4, p5 |-> pos.p5]

GuessInputs ==
    { MkGuess(r, u, p) : r \in GuessRaces, u \in GuessNames, p \in GuessPositions }

----------------------------------------------------------------------------
(* csv_db::Database: find, insert and update on one collection.             *)

\* The predicate a caller gives is applied to every record of the collection:
\* hit[i] tells whether it holds of record i.

\* find: the records satisfying the predicate, in storage order.
DbFind(coll, hit) ==
    LET found[i \in 0 .. Len(coll)] ==
            IF i = 0 THEN << >>
            ELSE IF hit[i] THEN Append(found[i - 1], coll[i]) ELSE found[i - 1]
    IN  found[Len(coll)]

\* insert: appends the record.
DbInsert(coll, rec) == Append(coll, rec)

\* update finds no record satisfying the predicate: DbError::NoMatch.
DbNoMatch(coll, hit) == \A i \in DOMAIN coll : ~hit[i]

\* update: replaces the first record satisfying the predicate.
DbUpdate(coll, rec, hit) ==
    LET first == CHOOSE i \in DOMAIN coll : hit[i] /\ \A j \in 1 .. (i - 1) : ~hit[j]
    IN  [coll EXCEPT ![first] = rec]

----------------------------------------------------------------------------
(* models.rs: Guess.                                                        *)

\* A normalize that upper-cases the five driver codes only.
NormalizeCodesOnly(g) ==
    [g EXCEPT !.p1 = ToUppercase(@), !.p2 = ToUppercase(@), !.p3 = ToUppercase(@),
              !.p4 = ToUppercase(@), !.p5 = ToUppercase(@)]

normalize(g) ==
    [race |-> ToUppercase(g.race),
     username |-> ToUppercase(g.username),
     p1 |-> ToUppercase(g.p1),
     p2 |-> ToUppercase(g.p2),
     p3 |-> ToUppercase(g.p3),
     p4 |-> ToUppercase(g.p4),
     p5 |-> ToUppercase(g.p5)]

RECURSIVE ValidFromAsTyped(_, _, _)
\* The loop of Guess::valid on the codes as they are typed, not lower-cased.
ValidFromAsTyped(codes, driver_codes, seen) ==
    IF codes = << >> THEN TRUE
    ELSE LET code == Head(codes)
         IN  IF code \notin driver_codes THEN FALSE
             ELSE IF code \in seen THEN FALSE
             ELSE ValidFromAsTyped(Tail(codes), driver_codes, seen \cup {code})

RECURSIVE ValidFrom(_, _, _)
\* The loop of Guess::valid over the remaining positions, with the set seen.
ValidFrom(codes, driver_codes, seen) ==
    IF codes = << >> THEN TRUE
    ELSE LET code == ToLowercase(Head(codes))
         IN  IF code \notin driver_codes THEN FALSE
             ELSE IF code \in seen THEN FALSE
             ELSE ValidFrom(Tail(codes), driver_codes, seen \cup {code})

\* Guess::valid without the set of codes already seen: every code is known.
ValidKnownCodes(g, drivers) ==
    LET driver_codes == { ToLowercase(drivers[i].code) : i \in DOMAIN drivers }
    IN  \A code \in Range(<< g.p1, g.p2, g.p3, g.p4, g.p5 >>) :
            ToLowercase(code) \in driver_codes

valid(g, drivers) ==
    LET driver_codes == { ToLowercase(drivers[i].code) : i \in DOMAIN drivers }
    IN  ValidFrom(<< g.p1, g.p2, g.p3, g.p4, g.p5 >>, driver_codes, {})

----------------------------------------------------------------------------
(* store.rs: scoring.                                                       *)

CORRECT_PODIUM == 3
CORRECT_FIVE == 6
WRONG_PLACE == 1
PARLAY == 4

\* normalized_results: the results keyed by race name as it is stored; of two
\* results with one race name the later one stays in the map.
NormalizedResults(rs) ==
    [ race \in { rs[i].race : i \in DOMAIN rs } |->
        rs[CHOOSE i \in DOMAIN rs :
               /\ rs[i].race = race
               /\ \A j \in DOMAIN rs : rs[j].race = race => j <= i] ]

RECURSIVE ScoreFromExactOnly(_, _, _, _)
\* The loop of score_guess without its else-if branch: a driver guessed at a
\* position where the result has another driver adds nothing.
ScoreFromExactOnly(pos, guess_positions, result_positions, score) ==
    IF pos >= Len(guess_positions) THEN score
    ELSE LET points ==
                 IF EqIgnoreAsciiCase(guess_positions[pos + 1], result_positions[pos + 1])
                 THEN (IF pos < 3 THEN CORRECT_PODIUM ELSE CORRECT_FIVE)
                 ELSE 0
         IN  ScoreFromExactOnly(pos + 1, guess_positions, result_positions,
                                score + points)

RECURSIVE ScoreFromPodiumOnly(_, _, _, _)
\* The loop of score_guess with CORRECT_PODIUM for an exact match at every
\* position, the fourth and fifth included.
ScoreFromPodiumOnly(pos, guess_positions, result_positions, score) ==
    IF pos >= Len(guess_positions) THEN score
    ELSE LET guess_driver == guess_positions[pos + 1]
             points ==
                 IF EqIgnoreAsciiCase(guess_driver, result_positions[pos + 1])
                 THEN CORRECT_PODIUM
                 ELSE IF \E k \in DOMAIN result_positions :
                             EqIgnoreAsciiCase(guess_driver, result_positions[k])
                 THEN WRONG_PLACE
                 ELSE 0
         IN  ScoreFromPodiumOnly(pos + 1, guess_positions, result_positions,
                                 score + points)

RECURSIVE ScoreFrom(_, _, _, _)
\* The loop of score_guess from position pos (0-based) with the score so far.
ScoreFrom(pos, guess_positions, result_positions, score) ==
    IF pos >= Len(guess_positions) THEN score
    ELSE LET guess_driver == guess_positions[pos + 1]
             points ==
                 IF EqIgnoreAsciiCase(guess_driver, result_positions[pos + 1])
                 THEN (IF pos < 3 THEN CORRECT_PODIUM ELSE CORRECT_FIVE)
                 ELSE IF \E k \in DOMAIN result_positions :
                             EqIgnoreAsciiCase(guess_driver, result_positions[k])
                 THEN WRONG_PLACE
                 ELSE 0
         IN  ScoreFrom(pos + 1, guess_positions, result_positions, score + points)

\* score_guess adding PARLAY from a sum of 19 on.
ScoreWithParlayFrom19(guess, normalized_results) ==
    IF guess.race \notin DOMAIN normalized_results THEN 0
    ELSE LET result == normalized_results[guess.race]
             score == ScoreFrom(0, << guess.p1, guess.p2, guess.p3, guess.p4, guess.p5 >>,
                                << result.p1, result.p2, result.p3, result.p4,
                                   result.p5 >>, 0)
         IN  IF score >= 19 THEN score + PARLAY ELSE score

\* score_guess without the final addition of PARLAY.
ScoreWithoutParlay(guess, normalized_results) ==
    IF guess.race \notin DOMAIN normalized_results THEN 0
    ELSE LET result == normalized_results[guess.race]
         IN  ScoreFrom(0, << guess.p1, guess.p2, guess.p3, guess.p4, guess.p5 >>,
                       << result.p1, result.p2, result.p3, result.p4, result.p5 >>, 0)

score_guess(guess, normalized_results) ==
    IF guess.race \notin DOMAIN normalized_results THEN 0
    ELSE LET result == normalized_results[guess.race]
             guess_positions == << guess.p1, guess.p2, guess.p3, guess.p4, guess.p5 >>
             result_positions ==
                 << result.p1, result.p2, result.p3, result.p4, result.p5 >>
             score == ScoreFrom(0, guess_positions, result_positions, 0)
         IN  IF score = 3 * CORRECT_PODIUM + 2 * CORRECT_FIVE
             THEN score + PARLAY
             ELSE score

----------------------------------------------------------------------------
(* The state.                                                               *)

VARIABLES
    users,      \* the "users" collection of the database
    guesses,    \* the "guesses" collection
    results,    \* the "results" collection
    now,        \* Utc::now(), in the unit of Event.datetime
    guard,      \* the task holding the Mutex around the Database, 0 when free
    task,       \* per request task: where it is in its handler and its locals
    response,   \* per task: the outcome of its request, once finished
    writes,     \* per task: the inserts and updates its request did
    scored,     \* per task: the scored guesses its leaderboard request built
    submitted,  \* the update_guess calls that returned Ok, in order: the guess
                \* of each and how many had returned when its request arrived
    call        \* a call of a function of the program on its own: its arguments
                \* and, once it has returned, its value; NoCall when there is none

vars ==
    << users, guesses, results, now, guard, task, response, writes, scored,
       submitted, call >>

NoCall == [fn |-> "none"]

IdleTask ==
    [pc |-> "idle", handler |-> "none", after |-> 0, token |-> 0, name |-> << >>,
     user |-> NoUser, drivers |-> << >>, event |-> NoEvent, guess |-> NoGuess,
     normalized_results |-> << >>]

Init ==
    /\ users = InitialUsers
    /\ guesses = << >>
    /\ results = << >>
    /\ now = 0
    /\ guard = 0
    /\ task = [t \in Tasks |-> IdleTask]
    /\ response = [t \in Tasks |-> "none"]
    /\ writes = [t \in Tasks |-> 0]
    /\ scored = [t \in Tasks |-> << >>]
    /\ submitted = << >>
    /\ call = NoCall

\* The request of task t ends with outcome r; its locals are dropped.
Finish(t, r) ==
    /\ task' = [task EXCEPT ![t] = [IdleTask EXCEPT !.pc = "done"]]
    /\ response' = [response EXCEPT ![t] = r]

\* Rocket spawns a task for each request: tasks are numbered in the order in
\* which their requests arrive.
Arrives(t) ==
    /\ task[t].pc = "idle"
    /\ \A o \in Tasks : o < t => task[o].pc # "idle"

\* A lock() that returns without waiting for the Mutex to be free.
LockWithoutWaiting(t, from, to) ==
    /\ task[t].pc = from
    /\ guard' = t
    /\ task' = [task EXCEPT ![t].pc = to]

\* db.lock().await returns: the Mutex is free and task t takes it.
Lock(t, from, to) ==
    /\ task[t].pc = from
    /\ guard = 0
    /\ guard' = t
    /\ task' = [task EXCEPT ![t].pc = to]

----------------------------------------------------------------------------
(* models.rs: the User request guard, and Store::get_user.                  *)

\* A request for POST /play arrives with a session token.
StartPlay(t, token) ==
    /\ Arrives(t)
    /\ task' = [task EXCEPT ![t].pc = "get_user_lock",
                             ![t].handler = "play_submit",
                             ![t].after = Len(submitted),
                             ![t].token = token]
    /\ UNCHANGED << users, guesses, results, now, guard, response, writes, scored,
                    submitted >>
    /\ UNCHANGED call

GetUserLock(t) ==
    /\ Lock(t, "get_user_lock", "get_user_find")
    /\ UNCHANGED << users, guesses, results, now, response, writes, scored, submitted >>
    /\ UNCHANGED call

GetUserPred(u, token) == u.token = token

\* Where the handler starts once the User guard has succeeded.
AfterUserGuard(handler) ==
    IF handler = "play_submit" THEN "all_drivers_lock" ELSE "profile_get_user_lock"

\* find("users", token) and .ok()?.into_iter().next(): the first user with the
\* token; none, or a failed read, forwards the request as unauthorized.
GetUserFind(t) ==
    /\ task[t].pc = "get_user_find"
    /\ guard = t
    /\ guard' = 0
    /\ \E io_ok \in BOOLEAN :
         LET found == IF io_ok
                      THEN DbFind(users, [i \in DOMAIN users |->
                                          GetUserPred(users[i], task[t].token)])
                      ELSE << >>
         IN  IF found = << >>
             THEN Finish(t, "unauthorized")
             ELSE /\ task' = [task EXCEPT ![t].pc = AfterUserGuard(task[t].handler),
                                          ![t].user = Head(found)]
                  /\ UNCHANGED response
    /\ UNCHANGED << users, guesses, results, now, writes, scored, submitted >>
    /\ UNCHANGED call

----------------------------------------------------------------------------
(* controllers.rs: play_submit (api.rs: play takes the same steps).         *)

AllDriversLock(t) ==
    /\ Lock(t, "all_drivers_lock", "all_drivers_find")
    /\ UNCHANGED << users, guesses, results, now, response, writes, scored, submitted >>
    /\ UNCHANGED call

\* all_drivers().await.ok().unwrap_or_default(): a failed read is an empty roster.
AllDriversFind(t) ==
    /\ task[t].pc = "all_drivers_find"
    /\ guard = t
    /\ guard' = 0
    /\ \E io_ok \in BOOLEAN :
         task' = [task EXCEPT ![t].pc = "next_event_lock",
                              ![t].drivers = IF io_ok THEN Drivers ELSE << >>]
    /\ UNCHANGED << users, guesses, results, now, response, writes, scored, submitted >>
    /\ UNCHANGED call

NextEventLock(t) ==
    /\ Lock(t, "next_event_lock", "next_event_find")
    /\ UNCHANGED << users, guesses, results, now, response, writes, scored, submitted >>
    /\ UNCHANGED call

NextEventPred(e) ==
    /\ e.datetime > now
    /\ EqIgnoreAsciiCase(e.description, << "r", "a", "c", "e" >>)

\* sorted_by(datetime).next(): the earliest of the events found, the first in
\* storage order among equals (the sort is stable).
Earliest(found) ==
    found[CHOOSE i \in DOMAIN found :
              \A j \in DOMAIN found :
                  \/ found[j].datetime > found[i].datetime
                  \/ found[j].datetime = found[i].datetime /\ j >= i]

\* next_event().await.expect(..): no future race, or a failed read, panics.
NextEventFind(t) ==
    /\ task[t].pc = "next_event_find"
    /\ guard = t
    /\ guard' = 0
    /\ \E io_ok \in BOOLEAN :
         LET hit == [i \in DOMAIN Events |-> NextEventPred(Events[i])]
             found == IF io_ok THEN DbFind(Events, hit) ELSE << >>
         IN  IF found = << >>
             THEN Finish(t, "panic")
             ELSE /\ task' = [task EXCEPT ![t].pc = "play_submit",
                                          ![t].event = Earliest(found)]
                  /\ UNCHANGED response
    /\ UNCHANGED << users, guesses, results, now, writes, scored, submitted >>
    /\ UNCHANGED call

\* The guess with its race overwritten by the current event's name.
Restamp(g, current_event) == [g EXCEPT !.race = current_event.name]

\* The body of play_submit from the posted guess to the call of update_guess:
\* the username check, the race re-stamp, normalize and valid.  The posted
\* guess is read here for the first time, so it is drawn here.
PlaySubmit(t) ==
    /\ task[t].pc = "play_submit"
    /\ \E posted \in GuessInputs :
         IF ~EqIgnoreAsciiCase(posted.username, task[t].user.username)
         THEN Finish(t, "unauthenticated")
         ELSE \E guess \in { normalize(Restamp(posted, task[t].event)) } :
                  IF ~valid(guess, task[t].drivers)
                  THEN Finish(t, "invalid")
                  ELSE /\ task' = [task EXCEPT ![t].pc = "update_guess_lock",
                                               ![t].guess = guess]
                       /\ UNCHANGED response
    /\ UNCHANGED << users, guesses, results, now, guard, writes, scored, submitted >>
    /\ UNCHANGED call

----------------------------------------------------------------------------
(* store.rs: Store::update_guess.                                           *)

UpdateGuessLock(t) ==
    /\ Lock(t, "update_guess_lock", "update_guess_update")
    /\ UNCHANGED << users, guesses, results, now, response, writes, scored, submitted >>
    /\ UNCHANGED call

\* The closure given to update: username is guess.username.to_lowercase().
UpdateGuessPred(g, username, current_race) ==
    /\ ToLowercase(g.username) = username
    /\ EqIgnoreAsciiCase(g.race, current_race)

\* The record of the update_guess call of task t, for the properties.
Returned(t) == [guess |-> task[t].guess, after |-> task[t].after]

\* An update_guess that drops the guard when the update has reported NoMatch
\* and takes it again for the insert, as two separate store calls would.
ReleasedAfterNoMatch(t) == 0

\* What update_guess does with the guard once the update has reported NoMatch.
AfterNoMatch(t) == t

\* An update_guess that falls back to the insert after any error of the
\* update, not only after NoMatch.
UpdateGuessUpdateInsertingOnAnyError(t) ==
    /\ task[t].pc = "update_guess_update"
    /\ guard = t
    /\ LET guess == task[t].guess
           username == ToLowercase(guess.username)
           current_race == task[t].event.name
           hit == [i \in DOMAIN guesses |->
                      UpdateGuessPred(guesses[i], username, current_race)]
       IN  \E io_ok \in BOOLEAN :
             IF ~io_ok \/ DbNoMatch(guesses, hit)
             THEN /\ guard' = AfterNoMatch(t)
                  /\ task' = [task EXCEPT ![t].pc = "update_guess_insert"]
                  /\ UNCHANGED << guesses, writes, response, submitted >>
             ELSE /\ guesses' = DbUpdate(guesses, guess, hit)
                  /\ writes' = [writes EXCEPT ![t] = @ + 1]
                  /\ submitted' = Append(submitted, Returned(t))
                  /\ guard' = 0
                  /\ Finish(t, "ok")
    /\ UNCHANGED << users, results, now, scored >>
    /\ UNCHANGED call

\* db_lock.update("guesses", ..): replaces the first match and returns Ok,
\* reports NoMatch (the insert follows, under the same guard), or fails.
UpdateGuessUpdate(t) ==
    /\ task[t].pc = "update_guess_update"
    /\ guard = t
    /\ LET guess == task[t].guess
           username == ToLowercase(guess.username)
           current_race == task[t].event.name
           hit == [i \in DOMAIN guesses |->
                      UpdateGuessPred(guesses[i], username, current_race)]
       IN  \E io_ok \in BOOLEAN :
             IF ~io_ok
             THEN /\ guard' = 0
                  /\ Finish(t, "problem_updating")
                  /\ UNCHANGED << guesses, writes, submitted >>
             ELSE IF DbNoMatch(guesses, hit)
             THEN /\ guard' = AfterNoMatch(t)
                  /\ task' = [task EXCEPT ![t].pc = "update_guess_insert"]
                  /\ UNCHANGED << guesses, writes, response, submitted >>
             ELSE /\ guesses' = DbUpdate(guesses, guess, hit)
                  /\ writes' = [writes EXCEPT ![t] = @ + 1]
                  /\ submitted' = Append(submitted, Returned(t))
                  /\ guard' = 0
                  /\ Finish(t, "ok")
    /\ UNCHANGED << users, results, now, scored >>
    /\ UNCHANGED call

\* An update_guess whose fallback insert is a store call of its own, asking
\* for the Mutex again while db_lock is still alive.
UpdateGuessInsertLockingAgain(t) ==
    /\ task[t].pc = "update_guess_insert"
    /\ guard = 0
    /\ guard' = 0
    /\ \E io_ok \in BOOLEAN :
         IF io_ok
         THEN /\ guesses' = DbInsert(guesses, task[t].guess)
              /\ writes' = [writes EXCEPT ![t] = @ + 1]
              /\ submitted' = Append(submitted, Returned(t))
              /\ Finish(t, "ok")
         ELSE /\ Finish(t, "problem_updating")
              /\ UNCHANGED << guesses, writes, submitted >>
    /\ UNCHANGED << users, results, now, scored >>
    /\ UNCHANGED call

\* db_lock.insert("guesses", guess) after NoMatch.
UpdateGuessInsert(t) ==
    /\ task[t].pc = "update_guess_insert"
    /\ guard = t
    /\ guard' = 0
    /\ \E io_ok \in BOOLEAN :
         IF io_ok
         THEN /\ guesses' = DbInsert(guesses, task[t].guess)
              /\ writes' = [writes EXCEPT ![t] = @ + 1]
              /\ submitted' = Append(submitted, Returned(t))
              /\ Finish(t, "ok")
         ELSE /\ Finish(t, "problem_updating")
              /\ UNCHANGED << guesses, writes, submitted >>
    /\ UNCHANGED << users, results, now, scored >>
    /\ UNCHANGED call

----------------------------------------------------------------------------
(* controllers.rs: register_submit, and store.rs: Store::add_user.          *)

\* A request for POST /register arrives with a username.
StartRegister(t, username) ==
    /\ Arrives(t)
    /\ task' = [task EXCEPT ![t].pc = "add_user_lock",
                             ![t].handler = "register_submit",
                             ![t].name = username]
    /\ UNCHANGED << users, guesses, results, now, guard, response, writes, scored,
                    submitted >>
    /\ UNCHANGED call

AddUserLock(t) ==
    /\ Lock(t, "add_user_lock", "add_user_find")
    /\ UNCHANGED << users, guesses, results, now, response, writes, scored, submitted >>
    /\ UNCHANGED call

\* The closure given to find: the stored username against the one typed.
AddUserPred(u, username) == EqIgnoreAsciiCase(u.username, username)

\* find("users", ..) under db_lock: a failed read and a user found both end
\* the request with an error; otherwise the insert follows under the guard.
AddUserFind(t) ==
    /\ task[t].pc = "add_user_find"
    /\ guard = t
    /\ \E io_ok \in BOOLEAN :
         LET found == DbFind(users, [i \in DOMAIN users |->
                                       AddUserPred(users[i], task[t].name)])
         IN  IF io_ok /\ found = << >>
             THEN /\ task' = [task EXCEPT ![t].pc = "add_user_insert"]
                  /\ UNCHANGED << guard, response >>
             ELSE /\ guard' = 0
                  /\ Finish(t, "error")
    /\ UNCHANGED << users, guesses, results, now, writes, scored, submitted >>
    /\ UNCHANGED call

\* Uuid::new_v4(): a token no stored user has.
NewToken == Len(users) + 1

\* A User built from the username as it was typed.
NewUserAsTyped(username) ==
    [token |-> NewToken, username |-> username, country |-> << >>]

\* The User add_user builds (country.unwrap_or_default() of a form without one).
NewUser(username) ==
    [token |-> NewToken, username |-> ToLowercase(username), country |-> << >>]

\* hash_password and insert("users", user): either may fail.
AddUserInsert(t) ==
    /\ task[t].pc = "add_user_insert"
    /\ guard = t
    /\ guard' = 0
    /\ \E io_ok \in BOOLEAN :
         IF io_ok
         THEN /\ users' = DbInsert(users, NewUser(task[t].name))
              /\ writes' = [writes EXCEPT ![t] = @ + 1]
              /\ Finish(t, "ok")
         ELSE /\ Finish(t, "error")
              /\ UNCHANGED << users, writes >>
    /\ UNCHANGED << guesses, results, now, scored, submitted >>
    /\ UNCHANGED call

----------------------------------------------------------------------------
(* api.rs: leaderboard, with store.rs: results, normalized_results,         *)
(* get_guesses and scored_guesses.                                          *)

\* A request for GET /api/leaderboard arrives.
StartLeaderboard(t) ==
    /\ Arrives(t)
    /\ task' = [task EXCEPT ![t].pc = "results_lock", ![t].handler = "leaderboard"]
    /\ UNCHANGED << users, guesses, results, now, guard, response, writes, scored,
                    submitted >>
    /\ UNCHANGED call

ResultsLock(t) ==
    /\ Lock(t, "results_lock", "results_find")
    /\ UNCHANGED << users, guesses, results, now, response, writes, scored, submitted >>
    /\ UNCHANGED call

\* results() inside normalized_results(): a failed read ends the request.
ResultsFind(t) ==
    /\ task[t].pc = "results_find"
    /\ guard = t
    /\ guard' = 0
    /\ \E io_ok \in BOOLEAN :
         IF io_ok
         THEN /\ task' = [task EXCEPT
                     ![t].pc = "get_guesses_lock",
                     ![t].normalized_results =
                         NormalizedResults(DbFind(results, [i \in DOMAIN results |-> TRUE]))]
              /\ UNCHANGED response
         ELSE Finish(t, "error")
    /\ UNCHANGED << users, guesses, results, now, writes, scored, submitted >>
    /\ UNCHANGED call

GetGuessesLock(t) ==
    /\ Lock(t, "get_guesses_lock", "get_guesses_find")
    /\ UNCHANGED << users, guesses, results, now, response, writes, scored, submitted >>
    /\ UNCHANGED call

None == [some |-> FALSE, value |-> << >>]

Some(x) == [some |-> TRUE, value |-> x]

\* The closure get_guesses gives to find.
GetGuessesPred(g, username, race) ==
    /\ (IF username.some THEN EqIgnoreAsciiCase(g.username, username.value) ELSE TRUE)
    /\ (IF race.some THEN EqIgnoreAsciiCase(g.race, race.value) ELSE TRUE)

\* join_all over one future per guess: the outputs in the order of the inputs.
scored_guesses(gs, normalized_results) ==
    [ i \in DOMAIN gs |->
        [guess |-> gs[i], points |-> score_guess(gs[i], normalized_results)] ]

\* get_guesses(None, None), then scored_guesses over what was read.
GetGuessesFind(t) ==
    /\ task[t].pc = "get_guesses_find"
    /\ guard = t
    /\ guard' = 0
    /\ \E io_ok \in BOOLEAN :
         IF io_ok
         THEN /\ scored' = [scored EXCEPT ![t] =
                     scored_guesses(
                         DbFind(guesses, [i \in DOMAIN guesses |->
                                     GetGuessesPred(guesses[i], None, None)]),
                         task[t].normalized_results)]
              /\ Finish(t, "ok")
         ELSE /\ Finish(t, "error")
              /\ UNCHANGED scored
    /\ UNCHANGED << users, guesses, results, now, writes, submitted >>
    /\ UNCHANGED call

----------------------------------------------------------------------------
(* controllers.rs: profile_submit, with store.rs: Store::update_user.       *)

\* Countries typed into the profile form.
CountryInputs == { << "P", "T" >> }

\* A request for POST /profile arrives with a session token.
StartProfile(t, token) ==
    /\ Arrives(t)
    /\ task' = [task EXCEPT ![t].pc = "get_user_lock",
                             ![t].handler = "profile_submit",
                             ![t].token = token]
    /\ UNCHANGED << users, guesses, results, now, guard, response, writes, scored,
                    submitted >>
    /\ UNCHANGED call

ProfileGetUserLock(t) ==
    /\ Lock(t, "profile_get_user_lock", "profile_get_user_find")
    /\ UNCHANGED << users, guesses, results, now, response, writes, scored, submitted >>
    /\ UNCHANGED call

\* get_user(&token) in the handler, then user.country = profile_data.country;
\* hashing a new password may fail.
ProfileGetUserFind(t) ==
    /\ task[t].pc = "profile_get_user_find"
    /\ guard = t
    /\ guard' = 0
    /\ \E io_ok \in BOOLEAN, hash_ok \in BOOLEAN, country \in CountryInputs :
         LET found == IF io_ok
                      THEN DbFind(users, [i \in DOMAIN users |->
                                          GetUserPred(users[i], task[t].token)])
                      ELSE << >>
         IN  IF found = << >> \/ ~hash_ok
             THEN Finish(t, "error")
             ELSE /\ task' = [task EXCEPT
                         ![t].pc = "update_user_lock",
                         ![t].user = [Head(found) EXCEPT !.country = country]]
                  /\ UNCHANGED response
    /\ UNCHANGED << users, guesses, results, now, writes, scored, submitted >>
    /\ UNCHANGED call

UpdateUserLock(t) ==
    /\ Lock(t, "update_user_lock", "update_user_update")
    /\ UNCHANGED << users, guesses, results, now, response, writes, scored, submitted >>
    /\ UNCHANGED call

\* update("users", user, token): NoMatch and a failed write are both errors.
UpdateUserUpdate(t) ==
    /\ task[t].pc = "update_user_update"
    /\ guard = t
    /\ guard' = 0
    /\ LET hit == [i \in DOMAIN users |-> GetUserPred(users[i], task[t].token)]
       IN  \E io_ok \in BOOLEAN :
             IF io_ok /\ ~DbNoMatch(users, hit)
             THEN /\ users' = DbUpdate(users, task[t].user, hit)
                  /\ writes' = [writes EXCEPT ![t] = @ + 1]
                  /\ Finish(t, "ok")
             ELSE /\ Finish(t, "error")
                  /\ UNCHANGED << users, writes >>
    /\ UNCHANGED << guesses, results, now, scored, submitted >>
    /\ UNCHANGED call

----------------------------------------------------------------------------
(* The environment: time passes and official results are published.         *)

LastDatetime ==
    CHOOSE d \in { Events[i].datetime : i \in DOMAIN Events } :
        \A i \in DOMAIN Events : Events[i].datetime <= d

IsRace(e) == EqIgnoreAsciiCase(e.description, << "r", "a", "c", "e" >>)

\* The finishing order of the race of event e.
Official(e) ==
    [race |-> e.name, p1 |-> NOR, p2 |-> VER, p3 |-> PIA, p4 |-> RUS, p5 |-> LEC]

\* The races run at time d, in storage order.
RacesAt(d) == SelectSeq(Events, LAMBDA e : IsRace(e) /\ e.datetime = d)

\* Time passes to the next hour of the calendar; the race that was run in the
\* meantime has its result added to "results" under the event's name.
Tick ==
    /\ now < LastDatetime
    /\ now' = now + 1
    /\ results' = results \o [i \in DOMAIN RacesAt(now) |-> Official(RacesAt(now)[i])]
    /\ UNCHANGED << users, guesses, guard, task, response, writes, scored, submitted >>
    /\ UNCHANGED call

----------------------------------------------------------------------------

Next ==
    \/ \E t \in Tasks, token \in TokenInputs : StartPlay(t, token)
    \/ \E t \in Tasks : GetUserLock(t)
    \/ \E t \in Tasks : GetUserFind(t)
    \/ \E t \in Tasks : AllDriversLock(t)
    \/ \E t \in Tasks : AllDriversFind(t)
    \/ \E t \in Tasks : NextEventLock(t)
    \/ \E t \in Tasks : NextEventFind(t)
    \/ \E t \in Tasks : PlaySubmit(t)
    \/ \E t \in Tasks : UpdateGuessLock(t)
    \/ \E t \in Tasks : UpdateGuessUpdate(t)
    \/ \E t \in Tasks : UpdateGuessInsert(t)
    \/ \E t \in Tasks, username \in RegistrationNames : StartRegister(t, username)
    \/ \E t \in Tasks : AddUserLock(t)
    \/ \E t \in Tasks : AddUserFind(t)
    \/ \E t \in Tasks : AddUserInsert(t)
    \/ \E t \in Tasks : StartLeaderboard(t)
    \/ \E t \in Tasks : ResultsLock(t)
    \/ \E t \in Tasks : ResultsFind(t)
    \/ \E t \in Tasks : GetGuessesLock(t)
    \/ \E t \in Tasks : GetGuessesFind(t)
    \/ \E t \in Tasks, token \in TokenInputs : StartProfile(t, token)
    \/ \E t \in Tasks : ProfileGetUserLock(t)
    \/ \E t \in Tasks : ProfileGetUserFind(t)
    \/ \E t \in Tasks : UpdateUserLock(t)
    \/ \E t \in Tasks : UpdateUserUpdate(t)
    \/ Tick

Spec == Init /\ [][Next]_vars

----------------------------------------------------------------------------
(* Scheduling.  tokio's Mutex hands the guard to its waiters in the order   *)
(* in which they asked, and the runtime polls every task that can go on.    *)

\* db.lock().await of task t returns.
Acquire(t) ==
    \/ GetUserLock(t)
    \/ AllDriversLock(t)
    \/ NextEventLock(t)
    \/ UpdateGuessLock(t)
    \/ AddUserLock(t)
    \/ ResultsLock(t)
    \/ GetGuessesLock(t)
    \/ ProfileGetUserLock(t)
    \/ UpdateUserLock(t)

\* Task t goes on from a point at which it does not wait for the Mutex.
Proceed(t) ==
    \/ GetUserFind(t)
    \/ AllDriversFind(t)
    \/ NextEventFind(t)
    \/ PlaySubmit(t)
    \/ UpdateGuessUpdate(t)
    \/ UpdateGuessInsert(t)
    \/ AddUserFind(t)
    \/ AddUserInsert(t)
    \/ ResultsFind(t)
    \/ GetGuessesFind(t)
    \/ ProfileGetUserFind(t)
    \/ UpdateUserUpdate(t)

Fairness == \A t \in Tasks : SF_vars(Acquire(t)) /\ WF_vars(Proceed(t))

FairSpec == Init /\ [][Next]_vars /\ Fairness

----------------------------------------------------------------------------
(* Scoring on its own: the store holds one guess and some results, and the  *)
(* only requests are for the leaderboard, which scores what it reads.       *)

MaxResults == 2

\* Driver codes as the guess and the result may spell them.
ScorePositions ==
    { Positions(NOR, VER, PIA, RUS, LEC),
      Positions(ToLowercase(NOR), VER, ToLowercase(PIA), RUS, ToLowercase(LEC)),
      Positions(VER, NOR, PIA, LEC, RUS),
      Positions(NOR, HAM, PIA, ANT, LEC) }

ScoreRaces == { ToUppercase(TestGP), TestGP }

ScoreGuesses ==
    { MkGuess(r, ToUppercase(Ss), p) : r \in ScoreRaces, p \in ScorePositions }

MkResult(race, pos) ==
    [race |-> race,
     p1 |-> pos.p1, p2 |-> pos.p2, p3 |-> pos.p3, p4 |-> pos.p4, p5 |-> pos.p5]

ScoreResults == { MkResult(r, p) : r \in ScoreRaces, p \in ScorePositions }

ScoreResultLists ==
    UNION { [1..n -> ScoreResults] : n \in 0..MaxResults }

InitScore ==
    /\ users = InitialUsers
    /\ guesses \in { << g >> : g \in ScoreGuesses }
    /\ results \in ScoreResultLists
    /\ now = LastDatetime
    /\ guard = 0
    /\ task = [t \in Tasks |-> IdleTask]
    /\ response = [t \in Tasks |-> "none"]
    /\ writes = [t \in Tasks |-> 0]
    /\ scored = [t \in Tasks |-> << >>]
    /\ submitted = << >>
    /\ call = NoCall

NextScore ==
    \/ \E t \in Tasks : StartLeaderboard(t)
    \/ \E t \in Tasks : ResultsLock(t)
    \/ \E t \in Tasks : ResultsFind(t)
    \/ \E t \in Tasks : GetGuessesLock(t)
    \/ \E t \in Tasks : GetGuessesFind(t)

SpecScore == InitScore /\ [][NextScore]_vars

----------------------------------------------------------------------------
(* score_guess on its own: one call with a guess and a result index.        *)

\* The driver codes the enumerated guesses and results are made of.
ScoreCodes == { NOR, VER, PIA }

\* The five codes of a guess or of a result.
CallPositions ==
    { Positions(a, b, c, d, e) : a \in ScoreCodes, b \in ScoreCodes, c \in ScoreCodes,
                                 d \in ScoreCodes, e \in ScoreCodes }
    \cup ScorePositions
    \cup { Positions(ToLowercase(VER), NOR, ToLowercase(PIA), LEC, ToLowercase(RUS)) }

\* The result indexes of the calls: empty, or holding the result of "Test GP".
CallIndexes ==
    { << >> } \cup { [race \in { TestGP } |-> MkResult(TestGP, p)] : p \in CallPositions }

InitScoreGuess ==
    /\ users = InitialUsers
    /\ guesses = << >>
    /\ results = << >>
    /\ now = 0
    /\ guard = 0
    /\ task = [t \in Tasks |-> IdleTask]
    /\ response = [t \in Tasks |-> "none"]
    /\ writes = [t \in Tasks |-> 0]
    /\ scored = [t \in Tasks |-> << >>]
    /\ submitted = << >>
    /\ call \in { [fn |-> "score_guess", guess |-> MkGuess(TestGP, Ss, p),
                   normalized_results |-> ix, returned |-> FALSE, points |-> 0] :
                  p \in CallPositions, ix \in CallIndexes }

\* self.score_guess(g, normalized_results).await
CallScoreGuess ==
    /\ call.fn = "score_guess"
    /\ ~call.returned
    /\ call' = [call EXCEPT !.returned = TRUE,
                            !.points = score_guess(call.guess, call.normalized_results)]
    /\ UNCHANGED << users, guesses, results, now, guard, task, response, writes,
                    scored, submitted >>

NextScoreGuess == CallScoreGuess

SpecScoreGuess == InitScoreGuess /\ [][NextScoreGuess]_vars

\* Codes in either letter case, for the calls that differ in case only.
CaseCodes == { NOR, ToLowercase(VER) }

CasePositions ==
    { Positions(a, b, c, d, e) : a \in CaseCodes, b \in CaseCodes, c \in CaseCodes,
                                 d \in CaseCodes, e \in CaseCodes }
    \cup ScorePositions
    \cup { Positions(ToLowercase(VER), NOR, ToLowercase(PIA), LEC, ToLowercase(RUS)) }

CaseIndexes ==
    { << >> } \cup { [race \in { TestGP } |-> MkResult(TestGP, p)] : p \in CasePositions }

InitScoreCase ==
    /\ users = InitialUsers
    /\ guesses = << >>
    /\ results = << >>
    /\ now = 0
    /\ guard = 0
    /\ task = [t \in Tasks |-> IdleTask]
    /\ response = [t \in Tasks |-> "none"]
    /\ writes = [t \in Tasks |-> 0]
    /\ scored = [t \in Tasks |-> << >>]
    /\ submitted = << >>
    /\ call \in { [fn |-> "score_guess", guess |-> MkGuess(TestGP, Ss, p),
                   normalized_results |-> ix, returned |-> FALSE, points |-> 0] :
                  p \in CasePositions, ix \in CaseIndexes }

SpecScoreCase == InitScoreCase /\ [][NextScoreGuess]_vars

----------------------------------------------------------------------------
(* Guess::valid on its own: one call with a guess and a driver roster.      *)

Unknown == << "X", "X", "X" >>

\* The guesses of the calls: known, unknown and repeated codes, in both cases.
ValidPositions ==
    { Positions(a, b, c, d, e) :
        a \in { NOR, ToLowercase(NOR), VER, PIA, Unknown },
        b \in { NOR, ToLowercase(NOR), VER, PIA, Unknown },
        c \in { NOR, ToLowercase(NOR), VER, PIA, Unknown },
        d \in { RUS, ToLowercase(RUS), LEC },
        e \in { RUS, ToLowercase(RUS), LEC } }

\* The rosters of the calls: none, the roster of the model, the same with its
\* codes in lower case, and one without the driver PIA.
ValidRosters ==
    { << >>,
      Drivers,
      [i \in DOMAIN Drivers |-> [code |-> ToLowercase(Drivers[i].code)]],
      << [code |-> NOR], [code |-> VER], [code |-> RUS], [code |-> LEC], [code |-> HAM] >> }

InitValid ==
    /\ users = InitialUsers
    /\ guesses = << >>
    /\ results = << >>
    /\ now = 0
    /\ guard = 0
    /\ task = [t \in Tasks |-> IdleTask]
    /\ response = [t \in Tasks |-> "none"]
    /\ writes = [t \in Tasks |-> 0]
    /\ scored = [t \in Tasks |-> << >>]
    /\ submitted = << >>
    /\ call \in { [fn |-> "valid", guess |-> MkGuess(TestGP, Ss, p), drivers |-> ds,
                   returned |-> FALSE, value |-> FALSE] :
                  p \in ValidPositions, ds \in ValidRosters }

\* guess.valid(&drivers)
CallValid ==
    /\ call.fn = "valid"
    /\ ~call.returned
    /\ call' = [call EXCEPT !.returned = TRUE, !.value = valid(call.guess, call.drivers)]
    /\ UNCHANGED << users, guesses, results, now, guard, task, response, writes,
                    scored, submitted >>

NextValid == CallValid

SpecValid == InitValid /\ [][NextValid]_vars

----------------------------------------------------------------------------
(* The leaderboard on its own, built from a sequence of scored guesses: by  *)
(* index of routes.rs, and by leaderboard of api.rs with Store::leaderboard. *)

MaxScored == 3

ALICE == << "A", "L", "I", "C", "E" >>
BOB == << "B", "O", "B" >>
CAROL == << "C", "A", "R", "O", "L" >>

\* The points of the scored guesses given to the builders.
ScoredPoints == { 10, 25 }

\* A scored guess of a user, as scored_guesses returns it.
MkScored(username, points) ==
    [guess |-> MkGuess(ToUppercase(TestGP), username, Positions(NOR, VER, PIA, RUS, LEC)),
     points |-> points]

ScoredInputs ==
    UNION { [1 .. n -> { MkScored(u, n2) : u \in { ALICE, BOB, CAROL }, n2 \in ScoredPoints }] :
            n \in 0 .. MaxScored }

RECURSIVE SumPoints(_)
\* Iterator::sum over the points of a group, in u16.
SumPoints(group) ==
    IF group = << >> THEN 0
    ELSE (Head(group).points + SumPoints(Tail(group))) % 65536

RECURSIVE ChunkBy(_, _)
\* itertools chunk_by on the username: a new group starts whenever the
\* username differs from that of the element before.
ChunkBy(scored_bets, chunks) ==
    IF scored_bets = << >> THEN chunks
    ELSE LET s == Head(scored_bets)
             n == Len(chunks)
         IN  IF n > 0 /\ chunks[n][1].guess.username = s.guess.username
             THEN ChunkBy(Tail(scored_bets), [chunks EXCEPT ![n] = Append(@, s)])
             ELSE ChunkBy(Tail(scored_bets), Append(chunks, << s >>))

\* The place of entry x in a list sorted by descending points: after every
\* entry with at least as many points (the sort is stable).
InsertByPoints(sorted, x) ==
    LET before == SelectSeq(sorted, LAMBDA y : y.points >= x.points)
        after == SelectSeq(sorted, LAMBDA y : y.points < x.points)
    IN  before \o << x >> \o after

RECURSIVE SortedByPointsFrom(_, _)
SortedByPointsFrom(list, sorted) ==
    IF list = << >> THEN sorted
    ELSE SortedByPointsFrom(Tail(list), InsertByPoints(sorted, Head(list)))

\* sorted_by(|a, b| b.1.cmp(&a.1)): descending points, equal entries in the
\* order of the input.
SortedByPoints(list) == SortedByPointsFrom(list, << >>)

\* routes.rs index: chunk_by, the total of each group, sorted_by, enumerate
\* (the rank of an entry is its position in the sequence).
IndexPoints(scored_bets) ==
    LET chunks == ChunkBy(scored_bets, << >>)
    IN  SortedByPoints([k \in DOMAIN chunks |->
                           [username |-> chunks[k][1].guess.username,
                            points |-> SumPoints(chunks[k])]])

\* itertools into_group_map_by on the username: a HashMap from each username
\* to its scored guesses, in the order of the input.
IntoGroupMapBy(all_scored) ==
    [username \in { all_scored[i].guess.username : i \in DOMAIN all_scored } |->
        SelectSeq(all_scored, LAMBDA s : s.guess.username = username)]

\* The orders in which the entries of a HashMap with these keys may be iterated.
IterationOrders(keys) ==
    { order \in [1 .. Cardinality(keys) -> keys] : Range(order) = keys }

\* Store::leaderboard: the total of each group of the map, taken in the map's
\* iteration order, sorted by descending total with a stable sort.
leaderboard(grouped_guesses, order) ==
    SortedByPoints([k \in DOMAIN order |->
                       [username |-> order[k],
                        points |-> SumPoints(grouped_guesses[order[k]])]])

InitLeaderboard ==
    /\ users = InitialUsers
    /\ guesses = << >>
    /\ results = << >>
    /\ now = 0
    /\ guard = 0
    /\ task = [t \in Tasks |-> IdleTask]
    /\ response = [t \in Tasks |-> "none"]
    /\ writes = [t \in Tasks |-> 0]
    /\ scored = [t \in Tasks |-> << >>]
    /\ submitted = << >>
    /\ call \in { [fn |-> "build", scored_guesses |-> sg, returned |-> FALSE,
                   by |-> "none", board |-> << >>] : sg \in ScoredInputs }

\* The standings as index of routes.rs builds them.
CallIndexPoints ==
    /\ call.fn = "build"
    /\ ~call.returned
    /\ call' = [call EXCEPT !.returned = TRUE, !.by = "index",
                            !.board = IndexPoints(call.scored_guesses)]
    /\ UNCHANGED << users, guesses, results, now, guard, task, response, writes,
                    scored, submitted >>

\* The standings as leaderboard of api.rs builds them.
CallLeaderboard ==
    /\ call.fn = "build"
    /\ ~call.returned
    /\ LET grouped_guesses == IntoGroupMapBy(call.scored_guesses)
       IN  \E order \in IterationOrders(DOMAIN grouped_guesses) :
               call' = [call EXCEPT !.returned = TRUE, !.by = "leaderboard",
                                    !.board = leaderboard(grouped_guesses, order)]
    /\ UNCHANGED << users, guesses, results, now, guard, task, response, writes,
                    scored, submitted >>

NextLeaderboard ==
    \/ CallIndexPoints
    \/ CallLeaderboard

SpecLeaderboard == InitLeaderboard /\ [][NextLeaderboard]_vars

----------------------------------------------------------------------------
(* scored_guesses on its own: one future per guess, completing in any order, *)
(* and join_all over them.                                                  *)

MaxFutures == 3

\* The guesses of the calls: those of the repository's tests.
FutureGuesses ==
    { MkGuess(TestGP, Ss, p) : p \in { Positions(NOR, VER, PIA, RUS, LEC),
                                       Positions(VER, NOR, PIA, LEC, RUS),
                                       Positions(NOR, HAM, PIA, ANT, LEC) } }

FutureInputs == UNION { [1 .. n -> FutureGuesses] : n \in 0 .. MaxFutures }

\* The result index of the repository's tests.
TestResults == [race \in { TestGP } |-> MkResult(TestGP, Positions(NOR, VER, PIA, RUS, LEC))]

InitScoredGuesses ==
    /\ users = InitialUsers
    /\ guesses = << >>
    /\ results = << >>
    /\ now = 0
    /\ guard = 0
    /\ task = [t \in Tasks |-> IdleTask]
    /\ response = [t \in Tasks |-> "none"]
    /\ writes = [t \in Tasks |-> 0]
    /\ scored = [t \in Tasks |-> << >>]
    /\ submitted = << >>
    /\ call \in { [fn |-> "scored_guesses", guesses |-> gs,
                   normalized_results |-> TestResults,
                   outputs |-> [i \in DOMAIN gs |-> None], completed |-> << >>,
                   returned |-> FALSE, value |-> << >>] : gs \in FutureInputs }

\* The future of guess i completes with its ScoredGuess.
CompleteFuture(i) ==
    /\ call.fn = "scored_guesses"
    /\ i \in DOMAIN call.outputs
    /\ ~call.outputs[i].some
    /\ call' = [call EXCEPT
           !.outputs[i] = Some([guess |-> call.guesses[i],
                                points |-> score_guess(call.guesses[i],
                                                       call.normalized_results)]),
           !.completed = Append(@, i)]
    /\ UNCHANGED << users, guesses, results, now, guard, task, response, writes,
                    scored, submitted >>

\* A join_all that returns the outputs in the order the futures completed in.
JoinAllInCompletionOrder(outputs, completed) ==
    [k \in DOMAIN completed |-> outputs[completed[k]].value]

\* What join_all returns once every future has completed, the futures having
\* completed in the order given: the outputs in the order of the futures.
JoinAll(outputs, completed) == [i \in DOMAIN outputs |-> outputs[i].value]

\* join_all(futures).await returns.
ReturnScoredGuesses ==
    /\ call.fn = "scored_guesses"
    /\ ~call.returned
    /\ \A i \in DOMAIN call.outputs : call.outputs[i].some
    /\ call' = [call EXCEPT !.returned = TRUE,
                            !.value = JoinAll(call.outputs, call.completed)]
    /\ UNCHANGED << users, guesses, results, now, guard, task, response, writes,
                    scored, submitted >>

NextScoredGuesses ==
    \/ \E i \in 1 .. MaxFutures : CompleteFuture(i)
    \/ ReturnScoredGuesses

SpecScoredGuesses == InitScoredGuesses /\ [][NextScoredGuesses]_vars

----------------------------------------------------------------------------
(* Helpers of the properties.                                               *)

\* Two guesses are for one user and race, compared without regard to case.
SamePair(g, h) ==
    /\ EqIgnoreAsciiCase(g.username, h.username)
    /\ EqIgnoreAsciiCase(g.race, h.race)

\* The positions of the stored guesses for the user and race of g.
StoredFor(g) == { i \in DOMAIN guesses : SamePair(guesses[i], g) }

\* Task t is inside a store operation: between db.lock() returning and the
\* guard being dropped.
InStoreOp(t) ==
    task[t].pc \in { "get_user_find", "all_drivers_find", "next_event_find",
                     "update_guess_update", "update_guess_insert",
                     "add_user_find", "add_user_insert", "results_find",
                     "get_guesses_find", "profile_get_user_find",
                     "update_user_update" }

----------------------------------------------------------------------------
(* C1.  At most one guess is stored per (username, race), compared without  *)
(* regard to case, whatever the submits and their interleaving.             *)
C1_OneGuessPerUserAndRace ==
    \A i, j \in DOMAIN guesses :
        SamePair(guesses[i], guesses[j]) => i = j

----------------------------------------------------------------------------
----------------------------------------------------------------------------
(* C3.  When the last two update_guess calls that returned Ok were for the  *)
(* same user and race, and the request of the second arrived after the      *)
(* first had returned, exactly one guess is stored for that user and race,  *)
(* and it is the guess of the second call.                                  *)
C3_SecondSubmitUpdatesInPlace ==
    Len(submitted) >= 2 =>
        LET first == submitted[Len(submitted) - 1].guess
            second == submitted[Len(submitted)]
        IN  (second.after = Len(submitted) - 1 /\ SamePair(first, second.guess)) =>
                /\ Cardinality(StoredFor(second.guess)) = 1
                /\ \A i \in StoredFor(second.guess) : guesses[i] = second.guess

----------------------------------------------------------------------------
\* Five codes of the roster, no two of them the same, without regard to case.
FiveDistinctKnownCodes(g) ==
    LET codes == << g.p1, g.p2, g.p3, g.p4, g.p5 >>
    IN  /\ \A i \in DOMAIN codes : \E d \in DOMAIN Drivers :
               EqIgnoreAsciiCase(codes[i], Drivers[d].code)
        /\ \A i, j \in DOMAIN codes :
               EqIgnoreAsciiCase(codes[i], codes[j]) => i = j

(* C4.  A submit rejected as invalid has written nothing, and every stored  *)
(* guess holds five distinct driver codes of the roster.                    *)
C4_InvalidGuessNeverPersisted ==
    /\ \A t \in Tasks : response[t] = "invalid" => writes[t] = 0
    /\ \A i \in DOMAIN guesses : FiveDistinctKnownCodes(guesses[i])

\* A request was rejected as invalid while another request's guess is stored.
C4_Witness ==
    \E t, o \in Tasks :
        /\ response[t] = "invalid"
        /\ response[o] = "ok"
        /\ writes[o] = 1
        /\ guesses # << >>

----------------------------------------------------------------------------
\* No user other than the given one has the username of guess g.
Owns(user, g) ==
    \A i \in DOMAIN users :
        EqIgnoreAsciiCase(g.username, users[i].username) =>
            users[i].username = user.username

(* C5.  A submit writes only guesses of its own user: a record it inserts,  *)
(* and a record it replaces, carries no username that is (without regard to *)
(* case) the username of a user other than the authenticated one; a submit  *)
(* answered as unauthenticated has written nothing.                         *)
C5_SubmitWritesOnlyOwnGuesses ==
    [][ \A t \in Tasks : \A i \in DOMAIN guesses' :
          /\ (guard = t /\ i > Len(guesses)) => Owns(task[t].user, guesses'[i])
          /\ (guard = t /\ i <= Len(guesses) /\ guesses'[i] # guesses[i]) =>
                 Owns(task[t].user, guesses[i]) /\ Owns(task[t].user, guesses'[i])
          /\ response'[t] = "unauthenticated" => writes'[t] = 0
      ]_vars

----------------------------------------------------------------------------
(* C6.  Every stored guess carries the name of an event in the event's own  *)
(* case, so that once the results hold the result of that event (under the  *)
(* event's name) the result index, keyed by race name as it is, has an      *)
(* entry for the guess's race.                                              *)
C6_GuessRaceIsEventName ==
    \A i \in DOMAIN guesses :
        /\ \E k \in DOMAIN Events : guesses[i].race = Events[k].name
        /\ \A j \in DOMAIN results :
               EqIgnoreAsciiCase(results[j].race, guesses[i].race) =>
                   guesses[i].race \in DOMAIN NormalizedResults(results)

----------------------------------------------------------------------------
LowerCased(name) == name = ToLowercase(name)

UpperCased(name) == name = ToUppercase(name)

(* C7 as stated.  Every username stored by registration and by guess submit *)
(* is in lower case.                                                        *)
C7_StoredUsernamesLowerCased ==
    /\ \A i \in DOMAIN users : LowerCased(users[i].username)
    /\ \A i \in DOMAIN guesses : LowerCased(guesses[i].username)

(* C7, amended.  The usernames of the users collection are in lower case    *)
(* (add_user lower-cases them) and the usernames of the guesses collection  *)
(* are in upper case (normalize upper-cases the guess before it is stored). *)
C7_UsersLowerGuessesUpper ==
    /\ \A i \in DOMAIN users : LowerCased(users[i].username)
    /\ \A i \in DOMAIN guesses : UpperCased(guesses[i].username)

\* A username typed in upper case has been registered and a guess is stored.
C7_Witness ==
    /\ \E i \in DOMAIN users :
           /\ users[i].token > Len(InitialUsers)
           /\ users[i].username = << "e_acute" >>
    /\ guesses # << >>

----------------------------------------------------------------------------
(* C8.  No two stored users have usernames that are equal without regard to *)
(* case, whatever the registrations and their interleaving.                 *)
C8_UsernamesUniqueIgnoringCase ==
    \A i, j \in DOMAIN users :
        EqIgnoreAsciiCase(users[i].username, users[j].username) => i = j

----------------------------------------------------------------------------
(* C9.  A task is inside a store operation exactly while it holds the       *)
(* guard, so at most one task is inside one at a time; every change of a    *)
(* collection is a step of the task holding the guard.                      *)
Exclusive ==
    /\ \A t \in Tasks : InStoreOp(t) <=> guard = t
    /\ Cardinality({ t \in Tasks : InStoreOp(t) }) <= 1

C9_StoreOperationsUnderGuard ==
    [][ /\ Exclusive
        /\ Exclusive'
        /\ (users' # users \/ guesses' # guesses) =>
               \E t \in Tasks : guard = t /\ task'[t] # task[t] ]_vars

\* A task is inside a store operation while another waits for the guard.
C9_Witness ==
    \E t, o \in Tasks :
        /\ InStoreOp(t)
        /\ task[t].pc = "update_guess_insert"
        /\ task[o].pc \in { "get_guesses_lock", "add_user_lock", "update_guess_lock" }

----------------------------------------------------------------------------
\* The five codes of a are those of b, position by position, without regard
\* to case.
SameOrder(a, b) ==
    /\ EqIgnoreAsciiCase(a.p1, b.p1)
    /\ EqIgnoreAsciiCase(a.p2, b.p2)
    /\ EqIgnoreAsciiCase(a.p3, b.p3)
    /\ EqIgnoreAsciiCase(a.p4, b.p4)
    /\ EqIgnoreAsciiCase(a.p5, b.p5)

\* The scored guesses whose codes are those of the result the index holds
\* for their race.
Perfect(t) ==
    { i \in DOMAIN scored[t] :
        LET g == scored[t][i].guess
        IN  /\ g.race \in DOMAIN NormalizedResults(results)
            /\ SameOrder(g, NormalizedResults(results)[g.race]) }

(* C10.  A guess whose five codes equal, position by position and without   *)
(* regard to case, those of the result for its race is scored exactly       *)
(* 3*3 + 2*6 + 4 = 25.                                                      *)
C10_PerfectGuessScores25 ==
    \A t \in Tasks : \A i \in Perfect(t) : scored[t][i].points = 25

\* A guess in upper case has been scored against a result spelt in mixed case.
C10_Witness ==
    \E t \in Tasks : \E i \in Perfect(t) :
        /\ scored[t][i].guess.p1 # NormalizedResults(results)[scored[t][i].guess.race].p1
        /\ Len(results) = MaxResults

----------------------------------------------------------------------------
\* The five codes of a guess or of a result.
PositionsOf(r) == Positions(r.p1, r.p2, r.p3, r.p4, r.p5)

\* score_guess has returned from a call in which the index holds a result
\* for the race of the guess.
ScoredAgainstResult ==
    /\ call.fn = "score_guess"
    /\ call.returned
    /\ call.guess.race \in DOMAIN call.normalized_results

\* The result the guess of the call was scored against.
ResultOfCall == call.normalized_results[call.guess.race]

\* The guess VER,NOR,PIA,LEC,RUS has been scored against NOR,VER,PIA,RUS,LEC.
MixedAgainstOfficial ==
    /\ ScoredAgainstResult
    /\ PositionsOf(call.guess) = Positions(VER, NOR, PIA, LEC, RUS)
    /\ PositionsOf(ResultOfCall) = Positions(NOR, VER, PIA, RUS, LEC)

(* C11 as stated.  Guess VER,NOR,PIA,LEC,RUS against result                 *)
(* NOR,VER,PIA,RUS,LEC scores 5: nothing for VER and NOR, 3 for PIA, 1 each *)
(* for LEC and RUS.                                                         *)
C11_MixedGuessScores5 == MixedAgainstOfficial => call.points = 5

(* C11, amended.  Guess VER,NOR,PIA,LEC,RUS against result                  *)
(* NOR,VER,PIA,RUS,LEC scores 7: 1 each for VER and NOR, which are in the   *)
(* result at another position, 3 for PIA, 1 each for LEC and RUS; PARLAY is *)
(* not added.                                                               *)
C11_MixedGuessScores7 ==
    MixedAgainstOfficial =>
        /\ call.points = 4 * WRONG_PLACE + CORRECT_PODIUM
        /\ call.points = 7

\* That call has returned with points.
C11_Witness == MixedAgainstOfficial /\ call.points > 0

----------------------------------------------------------------------------
\* The five codes of a guess or of a result, as a sequence.
CodesOf(r) == << r.p1, r.p2, r.p3, r.p4, r.p5 >>

\* The points of position k of guess codes g against result codes r.
ReferencePointsAt(k, g, r) ==
    IF EqIgnoreAsciiCase(g[k], r[k]) THEN (IF k <= 3 THEN 3 ELSE 6)
    ELSE IF \E j \in (1 .. 5) \ { k } : EqIgnoreAsciiCase(g[k], r[j]) THEN 1
    ELSE 0

\* The sum over the five positions.
ReferenceSum(g, r) ==
    ReferencePointsAt(1, g, r) + ReferencePointsAt(2, g, r) + ReferencePointsAt(3, g, r)
    + ReferencePointsAt(4, g, r) + ReferencePointsAt(5, g, r)

\* The reference score of a guess against a result index.
ReferenceScore(guess, index) ==
    IF guess.race \notin DOMAIN index THEN 0
    ELSE LET sum == ReferenceSum(CodesOf(guess), CodesOf(index[guess.race]))
         IN  IF sum = 21 THEN sum + 4 ELSE sum

\* The guess NOR,HAM,PIA,ANT,LEC has been scored against NOR,VER,PIA,RUS,LEC.
PartialAgainstOfficial ==
    /\ ScoredAgainstResult
    /\ PositionsOf(call.guess) = Positions(NOR, HAM, PIA, ANT, LEC)
    /\ PositionsOf(ResultOfCall) = Positions(NOR, VER, PIA, RUS, LEC)

(* C12.  score_guess returns the reference sum: 0 without a result for the  *)
(* race of the guess; otherwise, over the five positions, 3 (positions 1-3) *)
(* or 6 (positions 4-5) for the result's code at the position, else 1 for a *)
(* code at another position of the result, else 0, plus 4 when the sum is   *)
(* 21.  VER,NOR,PIA,LEC,RUS against NOR,VER,PIA,RUS,LEC scores 7 and        *)
(* NOR,HAM,PIA,ANT,LEC scores 12.                                           *)
C12_ScoreIsReferenceSum ==
    (call.fn = "score_guess" /\ call.returned) =>
        /\ call.points = ReferenceScore(call.guess, call.normalized_results)
        /\ MixedAgainstOfficial => call.points = 7
        /\ PartialAgainstOfficial => call.points = 12

\* The guess with two drivers absent from the result has been scored.
C12_Witness == PartialAgainstOfficial /\ call.points = 12

----------------------------------------------------------------------------
\* The guess or result r with its five codes in another letter case: those
\* at the positions in up in upper case, the others in lower case.
Recased(r, up) ==
    [r EXCEPT !.p1 = IF 1 \in up THEN ToUppercase(@) ELSE ToLowercase(@),
              !.p2 = IF 2 \in up THEN ToUppercase(@) ELSE ToLowercase(@),
              !.p3 = IF 3 \in up THEN ToUppercase(@) ELSE ToLowercase(@),
              !.p4 = IF 4 \in up THEN ToUppercase(@) ELSE ToLowercase(@),
              !.p5 = IF 5 \in up THEN ToUppercase(@) ELSE ToLowercase(@)]

(* C13.  Changing the letter case of any of the driver codes of the guess   *)
(* and of the result, the race name left as it is, does not change the      *)
(* points score_guess returns.                                              *)
C13_ScoreIgnoresCaseOfCodes ==
    ScoredAgainstResult =>
        \A ug \in SUBSET (1 .. 5) : \A ur \in SUBSET (1 .. 5) :
            score_guess(Recased(call.guess, ug),
                        [race \in { call.guess.race } |-> Recased(ResultOfCall, ur)])
                = call.points

\* A guess spelt in mixed case has been scored with points for each position.
C13_Witness ==
    /\ ScoredAgainstResult
    /\ PositionsOf(call.guess)
           = Positions(ToLowercase(NOR), VER, ToLowercase(PIA), RUS, ToLowercase(LEC))
    /\ PositionsOf(ResultOfCall) = Positions(NOR, VER, PIA, RUS, LEC)
    /\ call.points = 25

----------------------------------------------------------------------------
\* Every code of the sequence is, without regard to case, the code of a driver
\* of the roster.
AllKnown(codes, drivers) ==
    \A i \in DOMAIN codes : \E d \in DOMAIN drivers :
        EqIgnoreAsciiCase(codes[i], drivers[d].code)

\* No two codes of the sequence are the same without regard to case.
PairwiseDistinct(codes) ==
    \A i, j \in DOMAIN codes : EqIgnoreAsciiCase(codes[i], codes[j]) => i = j

(* C14.  Guess::valid returns true exactly when each of p1..p5 is, without  *)
(* regard to case, the code of a driver of the roster and the five codes    *)
(* are pairwise distinct without regard to case: false for a repeated code  *)
(* even when every code is known, false for every guess on an empty roster. *)
C14_ValidIffFiveDistinctKnownCodes ==
    (call.fn = "valid" /\ call.returned) =>
        LET codes == CodesOf(call.guess)
        IN  /\ call.value <=> (AllKnown(codes, call.drivers) /\ PairwiseDistinct(codes))
            /\ (AllKnown(codes, call.drivers) /\ ~PairwiseDistinct(codes)) => ~call.value
            /\ call.drivers = << >> => ~call.value

\* A guess with a code typed in lower case has been found valid.
C14_Witness ==
    /\ call.fn = "valid"
    /\ call.returned
    /\ call.value
    /\ call.guess.p1 = ToLowercase(NOR)
    /\ call.drivers = Drivers

----------------------------------------------------------------------------
\* The usernames of the scored guesses given to the builder.
ScoredUsernames ==
    { call.scored_guesses[i].guess.username : i \in DOMAIN call.scored_guesses }

\* The sum of the points of the scored guesses of a user.
TotalOf(username) ==
    SumPoints(SelectSeq(call.scored_guesses, LAMBDA s : s.guess.username = username))

\* The position at which a username is first met in the scored guesses.
FirstSeen(username) ==
    CHOOSE i \in DOMAIN call.scored_guesses :
        /\ call.scored_guesses[i].guess.username = username
        /\ \A j \in 1 .. (i - 1) : call.scored_guesses[j].guess.username # username

(* C15.  The leaderboard holds each username of the scored guesses exactly  *)
(* once, with the sum of the points of all of that user's scored guesses,   *)
(* adjacent in the input or not.                                            *)
C15_OneEntryPerUserWithTotal ==
    (call.fn = "build" /\ call.returned) =>
        /\ \A k \in DOMAIN call.board : call.board[k].username \in ScoredUsernames
        /\ \A u \in ScoredUsernames :
               /\ Cardinality({ k \in DOMAIN call.board : call.board[k].username = u }) = 1
               /\ \A k \in DOMAIN call.board :
                      call.board[k].username = u => call.board[k].points = TotalOf(u)

(* C16.  The leaderboard is in descending order of total points, and users  *)
(* with equal totals are in the order in which their usernames are first    *)
(* met in the scored guesses.                                               *)
C16_DescendingTiesFirstSeen ==
    (call.fn = "build" /\ call.returned) =>
        \A i, j \in DOMAIN call.board :
            i < j =>
                /\ call.board[i].points >= call.board[j].points
                /\ (call.board[i].points = call.board[j].points
                    /\ call.board[i].username # call.board[j].username) =>
                       FirstSeen(call.board[i].username) < FirstSeen(call.board[j].username)

----------------------------------------------------------------------------
(* C17.  scored_guesses returns as many elements as it was given guesses,   *)
(* the i-th holding the i-th guess and the points score_guess gives that    *)
(* guess, in whatever order the futures complete.                           *)
C17_ScoredGuessesKeepOrder ==
    (call.fn = "scored_guesses" /\ call.returned) =>
        /\ Len(call.value) = Len(call.guesses)
        /\ \A i \in DOMAIN call.guesses :
               /\ call.value[i].guess = call.guesses[i]
               /\ call.value[i].points
                      = ReferenceScore(call.guesses[i], call.normalized_results)

\* The futures of three different guesses completed last to first.
C17_Witness ==
    /\ call.fn = "scored_guesses"
    /\ call.returned
    /\ call.completed = << 3, 2, 1 >>
    /\ call.guesses[1] # call.guesses[2]
    /\ call.guesses[2] # call.guesses[3]

----------------------------------------------------------------------------
\* Task t is inside update_guess, holding the guard.
InUpdateGuess(t) == task[t].pc \in { "update_guess_update", "update_guess_insert" }

\* No stored guess is for the user and race of the update_guess call of task t.
NoStoredMatch(t) ==
    \A i \in DOMAIN guesses :
        ~UpdateGuessPred(guesses[i], ToLowercase(task[t].guess.username),
                         task[t].event.name)

(* C18.  In update_guess the insert is attempted only after the update has   *)
(* reported NoMatch; a call that ends in an error has written nothing and    *)
(* left the guesses as they were, and is answered as a failure to update;    *)
(* a call that ends in success has done exactly one update or insert.        *)
C18_UpdateGuessErrors ==
    [][ \A t \in Tasks :
          /\ (task[t].pc = "update_guess_update" /\ task'[t].pc = "update_guess_insert") =>
                 NoStoredMatch(t) /\ guesses' = guesses /\ response'[t] = "none"
          /\ (InUpdateGuess(t) /\ response'[t] = "problem_updating") =>
                 guesses' = guesses /\ writes'[t] = 0
          /\ (InUpdateGuess(t) /\ response'[t] = "ok") =>
                 writes[t] = 0 /\ writes'[t] = 1
          /\ (InUpdateGuess(t) /\ task'[t].pc = "done") =>
                 response'[t] \in { "ok", "problem_updating" }
      ]_vars

\* A submit has failed in update_guess while the guess of another is stored.
C18_Witness ==
    \E t, o \in Tasks :
        /\ response[t] = "problem_updating"
        /\ writes[t] = 0
        /\ response[o] = "ok"
        /\ writes[o] = 1
        /\ guesses # << >>

----------------------------------------------------------------------------
\* The lower-case letters among the characters.
LowerCaseLetters == Range(AsciiLower) \cup { "e_acute", "sharp_s" }

\* The string holds no lower-case letter.
NoLowerCase(str) == Range(str) \cap LowerCaseLetters = {}

(* C19.  No stored guess holds a lower-case letter in any of its fields     *)
(* race, username, p1..p5.                                                  *)
C19_StoredGuessesUpperCase ==
    \A i \in DOMAIN guesses :
        /\ NoLowerCase(guesses[i].race)
        /\ NoLowerCase(guesses[i].username)
        /\ NoLowerCase(guesses[i].p1)
        /\ NoLowerCase(guesses[i].p2)
        /\ NoLowerCase(guesses[i].p3)
        /\ NoLowerCase(guesses[i].p4)
        /\ NoLowerCase(guesses[i].p5)

\* A guess posted with codes in lower case, for an event whose name holds
\* lower-case letters, is stored.
C19_Witness ==
    \E i \in DOMAIN guesses :
        /\ guesses[i].race = ToUppercase(TestGP)
        /\ guesses[i].username = ToUppercase(Ss)
        /\ guesses[i].p1 = VER
        /\ guesses[i].p2 = NOR

----------------------------------------------------------------------------
\* Each of the five codes of the guess of the call is the code of the result
\* at its position.
AllFiveExact ==
    \A k \in 1 .. 5 :
        EqIgnoreAsciiCase(CodesOf(call.guess)[k], CodesOf(ResultOfCall)[k])

\* The sum of the loop of score_guess for the call, before PARLAY.
SumOfCall == ScoreFrom(0, CodesOf(call.guess), CodesOf(ResultOfCall), 0)

\* A code stands at two positions of the guess or of the result of the call.
RepeatedCodes ==
    \/ Cardinality(Range(CodesOf(call.guess))) < 5
    \/ Cardinality(Range(CodesOf(ResultOfCall))) < 5

(* C20.  PARLAY is added iff all five positions are exact: for every guess  *)
(* and result, repeated codes included, the sum before the bonus is 21      *)
(* exactly when positions 1-5 all match; the returned score is in 0..19 or  *)
(* is 25, below 2^16, and a guess with a wrong position gets its sum with   *)
(* no bonus.                                                                *)
C20_ParlayIffAllFiveExact ==
    (call.fn = "score_guess" /\ call.returned) =>
        /\ call.points \in (0 .. 19) \cup { 25 }
        /\ call.points < 65536
        /\ ScoredAgainstResult =>
               /\ SumOfCall = 21 <=> AllFiveExact
               /\ call.points = 25 <=> AllFiveExact
               /\ ~AllFiveExact => call.points = SumOfCall

\* A guess with repeated codes and one wrong position has scored 19, the
\* highest sum short of 21.
C20_Witness ==
    /\ ScoredAgainstResult
    /\ RepeatedCodes
    /\ ~AllFiveExact
    /\ call.points = 19

----------------------------------------------------------------------------
\* The request of task t is a submit whose update_guess returns Ok in this step.
SubmitReturnsOk(t) ==
    /\ task[t].handler = "play_submit"
    /\ response[t] # "ok"
    /\ response'[t] = "ok"

\* Guess g is a guess of the user for the race of the event: it carries their
\* names in the case in which guesses are stored.
ForPair(g, user, event) ==
    /\ g.username = ToUppercase(user.username)
    /\ g.race = ToUppercase(event.name)

\* Guess g carries the username of a user other than the given one.
OfOtherUser(g, user) ==
    \E i \in DOMAIN users :
        /\ users[i].username # user.username
        /\ EqIgnoreAsciiCase(g.username, users[i].username)

\* The positions of the stored guesses of the user and current race of task t.
StoredForPair(t) ==
    { i \in DOMAIN guesses : ForPair(guesses[i], task[t].user, task[t].event) }

\* The least of a non-empty set of positions.
FirstOf(positions) == CHOOSE i \in positions : \A j \in positions : i <= j

(* C21.  A successful submit of user u for the current race r changes the   *)
(* guesses only at (u, r).  When a guess for (u, r) is stored, the number   *)
(* of records stays, the first such record becomes the submitted guess and  *)
(* every other record is unchanged; when none is stored, the submitted      *)
(* guess is appended and the prior records are unchanged.  Guesses of other *)
(* users, and of u for other races, are neither modified nor removed, and   *)
(* nothing but a successful submit changes the guesses.                     *)
C21_SubmitChangesOnlyItsPair ==
    [][ /\ guesses' # guesses => \E t \in Tasks : SubmitReturnsOk(t)
        /\ \A t \in Tasks :
             SubmitReturnsOk(t) =>
                 LET mine == StoredForPair(t)
                 IN  /\ mine # {} =>
                            /\ Len(guesses') = Len(guesses)
                            /\ \A i \in DOMAIN guesses :
                                   guesses'[i] = IF i = FirstOf(mine)
                                                 THEN task[t].guess
                                                 ELSE guesses[i]
                     /\ mine = {} => guesses' = Append(guesses, task[t].guess)
                     /\ \A i \in DOMAIN guesses :
                            (i \notin mine \/ OfOtherUser(guesses[i], task[t].user)) =>
                                /\ i \in DOMAIN guesses'
                                /\ guesses'[i] = guesses[i]
      ]_vars

----------------------------------------------------------------------------
\* Task t has asked for the Mutex and db.lock().await has not returned.
AtLock(t) ==
    task[t].pc \in { "get_user_lock", "all_drivers_lock", "next_event_lock",
                     "update_guess_lock", "add_user_lock", "results_lock",
                     "get_guesses_lock", "profile_get_user_lock",
                     "update_user_lock" }

\* The request of task t has arrived and has not been answered.
Unfinished(t) == task[t].pc \notin { "idle", "done" }

\* The outcomes of a request: success, or one of the errors (a panic of the
\* handler is answered by the server as an internal error).
Outcomes ==
    { "ok", "error", "unauthorized", "unauthenticated", "invalid",
      "problem_updating", "panic" }

(* C22.  No task asks for the store guard while it holds it, and a task     *)
(* between two store calls of its handler does not hold it; whenever a      *)
(* request is unfinished some task can take a step (no deadlock); and with  *)
(* fair acquisition of the guard every request that has arrived is          *)
(* eventually finished with a success or an error response.                 *)
C22_NoReentryNoDeadlockTermination ==
    /\ [](\A t \in Tasks : (AtLock(t) \/ task[t].pc = "play_submit") => guard # t)
    /\ []((\E t \in Tasks : Unfinished(t)) =>
              \E o \in Tasks : ENABLED (Acquire(o) \/ Proceed(o)))
    /\ \A t \in Tasks :
           Unfinished(t) ~> (task[t].pc = "done" /\ response[t] \in Outcomes)

\* A play request waits for the guard while a registration, between its find
\* and its insert, holds it.
C22_Witness ==
    \E t, o \in Tasks :
        /\ task[t].pc = "add_user_insert"
        /\ guard = t
        /\ task[o].handler = "play_submit"
        /\ AtLock(o)

====
